---- MODULE Spec2Model ----
(***************************************************************************)
(* Model of the trainer service, src/services/trainer/main.py: the         *)
(* POST /inference handler (environment summary, provider dispatch with    *)
(* fallback), the two provider adapters and the rule-based classifier.     *)
(* Text is modelled by TLA+ strings; the Python string methods the code    *)
(* uses (lower, in, split, strip, slicing) are defined character by        *)
(* character below.                                                        *)
(***************************************************************************)
EXTENDS Integers, Sequences, FiniteSets, TLC

VARIABLES
    request,           \* the InferenceRequest being handled: id and input
    gemini_api_key,    \* os.getenv("GEMINI_API_KEY")
    openai_api_key,    \* os.getenv("OPENAI_API_KEY")
    pc,                \* position of the handler
    environment_text,  \* the handler's local environment_text
    summary,           \* the handler's local summary (a SummaryResponse)
    model_name,        \* the handler's local model_name
    calls,             \* the analyze_* functions invoked so far, in order
    attempt,           \* per provider: "none", "ok" or "failed"
    api_calls,         \* per provider: number of requests sent to its API
    api_response,      \* analyze_with_openai's local response: the API's answer
    response           \* what the caller receives

vars == <<request, gemini_api_key, openai_api_key, pc, environment_text,
          summary, model_name, calls, attempt, api_calls, api_response, response>>

-----------------------------------------------------------------------------
(* Bounds of the model.                                                    *)

\* A description is built from at most MaxWords fragments of the vocabulary.
MaxWords == 2
\* Length of the run of filler characters used to exceed the 200 cut.
FillerLen == 205

-----------------------------------------------------------------------------
(* Python string methods.                                                  *)

Min(a, b) == IF a <= b THEN a ELSE b

\* c.lower() for one ASCII character.
LowerChar(c) ==
    CASE c = "A" -> "a" [] c = "B" -> "b" [] c = "C" -> "c" [] c = "D" -> "d"
      [] c = "E" -> "e" [] c = "F" -> "f" [] c = "G" -> "g" [] c = "H" -> "h"
      [] c = "I" -> "i" [] c = "J" -> "j" [] c = "K" -> "k" [] c = "L" -> "l"
      [] c = "M" -> "m" [] c = "N" -> "n" [] c = "O" -> "o" [] c = "P" -> "p"
      [] c = "Q" -> "q" [] c = "R" -> "r" [] c = "S" -> "s" [] c = "T" -> "t"
      [] c = "U" -> "u" [] c = "V" -> "v" [] c = "W" -> "w" [] c = "X" -> "x"
      [] c = "Y" -> "y" [] c = "Z" -> "z" [] OTHER -> c

\* s.lower(): every character lowered (computed by halves).
RECURSIVE Lower(_)
Lower(s) ==
    IF Len(s) = 0 THEN ""
    ELSE IF Len(s) = 1 THEN LowerChar(s)
    ELSE LET h == Len(s) \div 2
         IN  Lower(SubSeq(s, 1, h)) \o Lower(SubSeq(s, h + 1, Len(s)))

\* s[i:] with i counted from 1: the characters from position i on.
From(s, i) == IF i > Len(s) THEN "" ELSE SubSeq(s, i, Len(s))

\* s[:n]
Truncate(s, n) == IF Len(s) <= n THEN s ELSE SubSeq(s, 1, n)

\* s starts with k at position i
MatchAt(s, k, i) == i + Len(k) - 1 <= Len(s) /\ SubSeq(s, i, i + Len(k) - 1) = k

\* k in s
Contains(s, k) == \E i \in 1..(Len(s) - Len(k) + 1) : MatchAt(s, k, i)

\* s.find(k), counted from 1; 0 when k does not occur.
Find(s, k) ==
    IF Contains(s, k)
    THEN CHOOSE i \in 1..(Len(s) - Len(k) + 1) :
            /\ MatchAt(s, k, i)
            /\ \A j \in 1..(i - 1) : ~MatchAt(s, k, j)
    ELSE 0

\* s.split(sep): the pieces between the non-overlapping occurrences of sep,
\* scanned left to right.
RECURSIVE Split(_, _)
Split(s, sep) ==
    LET i == Find(s, sep)
    IN  IF i = 0 THEN <<s>>
        ELSE <<Truncate(s, i - 1)>> \o Split(From(s, i + Len(sep)), sep)

\* c.isspace() for the characters str.strip() removes: of the characters a
\* string of this module can hold, the space, TAB, LF, VT, FF, CR and the four
\* separators FS, GS, RS, US (codes 9-13, 28-31 and 32).  VT and the
\* separators have no escape and stand in the strings as themselves.
IsSpace(c) == c \in {" ", "\t", "\n", "\r", "\f", "", "", "", "", ""}

\* s.strip(): s from its first to its last character that is no space.
Strip(s) ==
    LET keep == {i \in 1..Len(s) : ~IsSpace(SubSeq(s, i, i))}
    IN  IF keep = {} THEN ""
        ELSE SubSeq(s, CHOOSE i \in keep : \A j \in keep : i <= j,
                       CHOOSE i \in keep : \A j \in keep : i >= j)

\* ", ".join(parts)
RECURSIVE Join(_)
Join(parts) ==
    IF Len(parts) = 0 THEN ""
    ELSE IF Len(parts) = 1 THEN parts[1]
    ELSE parts[1] \o ", " \o Join(Tail(parts))

\* k repeated n times
RECURSIVE Repeat(_, _)
Repeat(k, n) ==
    IF n = 0 THEN ""
    ELSE LET h == Repeat(k, n \div 2)
         IN  h \o h \o (IF n % 2 = 1 THEN k ELSE "")

-----------------------------------------------------------------------------
(* Environment summary, lines 81-96 of the handler.                        *)

\* env.get(k) is truthy: the key is present with a non-empty value.
HasValue(d, k) == k \in DOMAIN d /\ d[k] # ""

\* env = input_data.env or {}: None becomes the empty mapping.
EnvOrEmpty(env) == IF env.isNone THEN <<>> ELSE env.items

EnvParts(d) ==
    (IF HasValue(d, "os") THEN <<"OS: " \o d["os"]>> ELSE <<>>)
    \o
    (IF HasValue(d, "browser")
     THEN LET browser_version ==
                  (" " \o d["browser"])
                  \o (IF HasValue(d, "browserVersion")
                      THEN " " \o d["browserVersion"] ELSE "")
          IN  <<"Browser:" \o browser_version>>
     ELSE <<>>)

EnvironmentText(env) ==
    LET d == EnvOrEmpty(env)
    IN  IF DOMAIN d # {}
        THEN IF Len(EnvParts(d)) > 0 THEN Join(EnvParts(d))
             ELSE "Environment not specified"
        ELSE "No environment information provided"

-----------------------------------------------------------------------------
(* The rule-based classifier, analyze_with_rules (lines 285-399).          *)
(* The texts are the source's literals.  A TLA+ string cannot hold a       *)
(* backquote, so the backquotes of four suggested_solution literals        *)
(* (lines 322, 325, 335, 345) are written as apostrophes.                  *)

\* text = f"{description} {stacktrace}".lower()
RuleText(description, stacktrace) == Lower(description \o " " \o stacktrace)

\* lines 290-294: the values before any rule matches
RuleDefaults ==
    [bug_category |-> "unknown",
     actual_behavior |-> "Application exhibits unexpected behavior",
     expected_behavior |-> "Application should function normally",
     root_cause |-> "Unable to determine root cause from available information",
     suggested_solution |-> "Please review the error logs and stack trace for more details"]

\* line 297
MatchesServerError(text) ==
    Contains(text, "500") \/ Contains(text, "internal server error")

\* lines 298-306
ServerErrorRule(text) ==
    LET r == [RuleDefaults EXCEPT
        !.bug_category = "server-error",
        !.actual_behavior = "Server returns 500 Internal Server Error",
        !.expected_behavior = "Server should handle requests without errors",
        !.root_cause = "Server-side exception thrown during request processing. Likely caused by unhandled error in backend code, database connection failure, or misconfigured middleware."]
    IN  IF Contains(text, "upload") \/ Contains(text, "entity too large") \/ Contains(text, "file")
        THEN
            [r EXCEPT
                !.root_cause = "File upload exceeds server-configured maximum size limit. The server's request body size limit is smaller than the uploaded file.",
                !.suggested_solution = "Increase server file upload limit. In Express: use multer with limits: { fileSize: 10 * 1024 * 1024 }. In nginx: set client_max_body_size 10M; Add proper validation and user-friendly error messages for file size limits."]
        ELSE
            [r EXCEPT
                !.suggested_solution = "Check server logs for the root cause. Add proper error handling and logging. Implement graceful error responses with meaningful messages. Review recent code changes that might have introduced the error."]

\* line 308
MatchesRoutingError(text) ==
    Contains(text, "404") \/ Contains(text, "not found")

\* lines 309-313
RoutingErrorRule(text) ==
    [RuleDefaults EXCEPT
        !.bug_category = "routing-error",
        !.actual_behavior = "Resource or route not found (404 error)",
        !.expected_behavior = "All routes should be properly configured",
        !.root_cause = "Requested route or API endpoint is not registered in the router configuration. Could be caused by typo in URL, missing route definition, or incorrect base path.",
        !.suggested_solution = "Verify route definitions in your router configuration. Check for typos in URLs. Ensure API endpoints are correctly registered. For SPAs, configure server to redirect all routes to index.html."]

\* line 315
MatchesCrash(text) ==
    Contains(text, "crash") \/ Contains(text, "white screen") \/ Contains(text, "blank screen")

\* lines 316-328
CrashRule(text) ==
    LET r == [RuleDefaults EXCEPT
        !.bug_category = "crash",
        !.actual_behavior = "Application crashes or displays blank/white screen",
        !.expected_behavior = "Application should remain stable and display content"]
    IN  IF Contains(text, "save") \/ Contains(text, "button")
        THEN
            [r EXCEPT
                !.root_cause = "Null or undefined object accessed during save operation. Likely caused by form data not being properly validated or state being accessed before initialization.",
                !.suggested_solution = "Add null checks: 'if (data && data.property)' before accessing. Use optional chaining: 'data?.property'. Add error boundaries: wrap components with try-catch. Verify form data is properly validated before saving."]
        ELSE IF Contains(text, "undefined") \/ Contains(text, "null") \/ Contains(text, "cannot read property")
        THEN
            [r EXCEPT
                !.root_cause = "Attempting to access property on null or undefined object. This happens when component renders before data is loaded, or when an object is not properly initialized in state.",
                !.suggested_solution = "Fix null/undefined reference. Add defensive checks: 'const value = object?.property ?? defaultValue'. Ensure all required data is loaded before component renders. Use PropTypes or TypeScript for type checking."]
        ELSE
            [r EXCEPT
                !.root_cause = "Unhandled exception thrown in component rendering or event handler. Could be caused by type mismatch, missing dependency, or logic error in recent code changes.",
                !.suggested_solution = "Add React Error Boundaries to catch crashes. Check browser console for detailed stack trace. Review recent code changes. Add logging to identify the crash point. Ensure all async operations have error handling."]

\* line 330
MatchesNullReference(text) ==
    Contains(text, "cannot read property") \/ Contains(text, "undefined") \/ Contains(text, "typeerror")

\* lines 331-335
NullReferenceRule(text) ==
    [RuleDefaults EXCEPT
        !.bug_category = "null-reference",
        !.actual_behavior = "Attempting to access property of null or undefined object",
        !.expected_behavior = "All objects should be properly initialized before use",
        !.root_cause = "Object is null or undefined when property access is attempted. This occurs when data hasn't loaded yet, API response is missing expected fields, or component state is accessed before initialization.",
        !.suggested_solution = "Add null/undefined checks: 'if (obj && obj.property)'. Use optional chaining: 'obj?.property'. Provide default values: 'const value = obj?.property || defaultValue'. Check that API data is loaded before rendering."]

\* line 337
MatchesNetworkError(text) ==
    Contains(text, "network") \/ Contains(text, "fetch") \/ Contains(text, "api") \/ Contains(text, "timeout") \/ Contains(text, "cors")

\* lines 338-345
NetworkErrorRule(text) ==
    LET r == [RuleDefaults EXCEPT
        !.bug_category = "network-error",
        !.actual_behavior = "Network request fails or times out",
        !.expected_behavior = "API calls should complete successfully",
        !.suggested_solution = "Implement retry logic: 'axios.get(url).catch(() => retry())'. Add timeout handling. For CORS: configure server with proper headers: 'Access-Control-Allow-Origin'. Check network connectivity and API endpoint availability."]
    IN  IF Contains(text, "cors")
        THEN
            [r EXCEPT
                !.root_cause = "CORS (Cross-Origin Resource Sharing) policy blocking request from different origin. Server doesn't have proper CORS headers configured to allow requests from the frontend domain."]
        ELSE
            [r EXCEPT
                !.root_cause = "Network request failed due to connectivity issues, server timeout, or incorrect API endpoint URL. Could be caused by server being down, slow network, or malformed request."]

\* line 347
MatchesAuthentication(text) ==
    Contains(text, "login") \/ Contains(text, "auth") \/ Contains(text, "authentication") \/ Contains(text, "oauth")

\* lines 348-352
AuthenticationRule(text) ==
    [RuleDefaults EXCEPT
        !.bug_category = "authentication",
        !.actual_behavior = "Authentication or login process fails",
        !.expected_behavior = "Users should be able to authenticate successfully",
        !.root_cause = "Authentication failure caused by invalid credentials, expired tokens, misconfigured OAuth settings, or CORS issues preventing auth cookies from being set. Check token storage and validation logic.",
        !.suggested_solution = "Verify OAuth credentials and callback URLs. Check token expiration: implement token refresh logic. Ensure secure cookie/session configuration. Review CORS settings for auth endpoints. Check network requests in DevTools."]

\* line 354
MatchesUiRendering(text) ==
    Contains(text, "ui") \/ Contains(text, "display") \/ Contains(text, "layout") \/ Contains(text, "css") \/ Contains(text, "rendering")

\* lines 355-359
UiRenderingRule(text) ==
    [RuleDefaults EXCEPT
        !.bug_category = "ui-rendering",
        !.actual_behavior = "UI elements are not displayed or positioned correctly",
        !.expected_behavior = "UI should render properly across all screen sizes",
        !.root_cause = "CSS specificity conflict, z-index layering issue, or missing responsive breakpoints causing incorrect rendering. Could also be caused by JavaScript modifying DOM incorrectly.",
        !.suggested_solution = "Inspect element with browser DevTools. Check for CSS specificity conflicts. Verify z-index layering. Test responsive breakpoints. Clear browser cache. Check for CSS syntax errors in stylesheet."]

\* line 361
MatchesPerformance(text) ==
    Contains(text, "performance") \/ Contains(text, "slow") \/ Contains(text, "lag")

\* lines 362-366
PerformanceRule(text) ==
    [RuleDefaults EXCEPT
        !.bug_category = "performance",
        !.actual_behavior = "Application responds slowly or exhibits lag",
        !.expected_behavior = "Application should respond quickly to user interactions",
        !.root_cause = "Performance bottleneck caused by excessive re-renders, large bundle size, unoptimized images, or inefficient algorithms. Could also be caused by memory leaks or blocking operations on main thread.",
        !.suggested_solution = "Profile application performance using browser DevTools. Optimize rendering by memoizing components. Implement code splitting and lazy loading. Reduce bundle size and minimize re-renders."]

\* line 368
MatchesMemoryLeak(text) ==
    Contains(text, "memory") \/ Contains(text, "leak")

\* lines 369-373
MemoryLeakRule(text) ==
    [RuleDefaults EXCEPT
        !.bug_category = "memory-leak",
        !.actual_behavior = "Memory usage increases over time",
        !.expected_behavior = "Memory usage should remain stable",
        !.root_cause = "Memory leak caused by event listeners not being cleaned up, intervals/timeouts not being cleared on unmount, or circular references preventing garbage collection.",
        !.suggested_solution = "Remove event listeners in cleanup functions. Clear intervals/timeouts when components unmount. Avoid circular references. Use browser memory profiler to identify leaks."]

\* The chain with the null-reference rule tested before the crash rule.
RuleStep_NullReferenceFirst(text) ==
    IF MatchesServerError(text) THEN ServerErrorRule(text)
    ELSE IF MatchesRoutingError(text) THEN RoutingErrorRule(text)
    ELSE IF MatchesNullReference(text) THEN NullReferenceRule(text)
    ELSE IF MatchesCrash(text) THEN CrashRule(text)
    ELSE IF MatchesNetworkError(text) THEN NetworkErrorRule(text)
    ELSE IF MatchesAuthentication(text) THEN AuthenticationRule(text)
    ELSE IF MatchesUiRendering(text) THEN UiRenderingRule(text)
    ELSE IF MatchesPerformance(text) THEN PerformanceRule(text)
    ELSE IF MatchesMemoryLeak(text) THEN MemoryLeakRule(text)
    ELSE RuleDefaults

\* lines 297-373: the if/elif chain
RuleStep(text) ==
    IF MatchesServerError(text) THEN ServerErrorRule(text)
    ELSE IF MatchesRoutingError(text) THEN RoutingErrorRule(text)
    ELSE IF MatchesCrash(text) THEN CrashRule(text)
    ELSE IF MatchesNullReference(text) THEN NullReferenceRule(text)
    ELSE IF MatchesNetworkError(text) THEN NetworkErrorRule(text)
    ELSE IF MatchesAuthentication(text) THEN AuthenticationRule(text)
    ELSE IF MatchesUiRendering(text) THEN UiRenderingRule(text)
    ELSE IF MatchesPerformance(text) THEN PerformanceRule(text)
    ELSE IF MatchesMemoryLeak(text) THEN MemoryLeakRule(text)
    ELSE RuleDefaults

\* The slice [:200] of lines 380 and 388.
BehaviorMaxLen == 200

\* The first line of lines (text.split('\n')) whose lowercase contains key;
\* 0 when the for loop ends without a break.
FirstLineWith(lines, key) ==
    LET hits == {i \in 1..Len(lines) : Contains(Lower(lines[i]), key)}
    IN  IF hits = {} THEN 0
        ELSE CHOOSE i \in hits : \A j \in hits : i <= j

\* line.split(key)[1].strip()[:200]
Extract(line, key) == Truncate(Strip(Split(line, key)[2]), BehaviorMaxLen)

\* lines 376-381
ActualOverride(text, actual_behavior) ==
    IF Contains(text, "actual:") \/ Contains(text, "observed:")
    THEN LET lines == Split(text, "\n")
             i == FirstLineWith(lines, "actual:")
         IN  IF i = 0 THEN actual_behavior ELSE Extract(lines[i], "actual:")
    ELSE actual_behavior

\* lines 384-389
ExpectedOverride(text, expected_behavior) ==
    IF Contains(text, "expected:") \/ Contains(text, "should:")
    THEN LET lines == Split(text, "\n")
             i == FirstLineWith(lines, "expected:")
         IN  IF i = 0 THEN expected_behavior ELSE Extract(lines[i], "expected:")
    ELSE expected_behavior

analyze_with_rules(description, stacktrace, environment) ==
    LET text == RuleText(description, stacktrace)
        r == RuleStep(text)
    IN  [environment |-> environment,
         actualBehavior |-> ActualOverride(text, r.actual_behavior),
         expectedBehavior |-> ExpectedOverride(text, r.expected_behavior),
         bugCategory |-> r.bug_category,
         rootCause |-> r.root_cause,
         suggestedSolution |-> r.suggested_solution]

-----------------------------------------------------------------------------
(* The provider adapters, analyze_with_gemini and analyze_with_openai.     *)
(* What the external API answers is an input of the model, reply:          *)
(*   kind "error"       the call raises, times out or (OpenAI) returns a   *)
(*                      status other than 200;                             *)
(*   kind "unparsable"  json.loads raises on the returned text;            *)
(*   kind "invalid"     the parsed value is no object, or a field of it    *)
(*                      is no string, so .get or SummaryResponse raises;   *)
(*   kind "object"      the parsed value is an object of strings, given    *)
(*                      as analysis.                                       *)

\* analysis.get(k, default)
Get(analysis, k, default) ==
    IF k \in DOMAIN analysis THEN analysis[k] ELSE default

\* The summary taking the environment from the provider's JSON when it has one.
SummaryOfAnalysis_ModelEnvironment(analysis, environment) ==
    [environment |-> Get(analysis, "environment", environment),
     actualBehavior |-> Get(analysis, "actualBehavior", "Unable to determine"),
     expectedBehavior |-> Get(analysis, "expectedBehavior", "Unable to determine"),
     bugCategory |-> Get(analysis, "bugCategory", "unknown"),
     rootCause |-> Get(analysis, "rootCause", "Root cause analysis unavailable"),
     suggestedSolution |-> Get(analysis, "suggestedSolution", "Please review the error logs")]

\* SummaryResponse(environment=environment, actualBehavior=analysis.get(...), ...)
SummaryOfAnalysis(analysis, environment) ==
    [environment |-> environment,
     actualBehavior |-> Get(analysis, "actualBehavior", "Unable to determine"),
     expectedBehavior |-> Get(analysis, "expectedBehavior", "Unable to determine"),
     bugCategory |-> Get(analysis, "bugCategory", "unknown"),
     rootCause |-> Get(analysis, "rootCause", "Root cause analysis unavailable"),
     suggestedSolution |-> Get(analysis, "suggestedSolution", "Please review the error logs")]

\* The value of summary before the handler assigns it.
NoSummary ==
    [environment |-> "", actualBehavior |-> "", expectedBehavior |-> "",
     bugCategory |-> "", rootCause |-> "", suggestedSolution |-> ""]

\* Lines 242-282: every exception is printed and raised again.
analyze_with_gemini(description, stacktrace, environment, api_key, reply) ==
    IF reply.kind = "object"
    THEN [raised |-> FALSE, via |-> "gemini",
          summary |-> SummaryOfAnalysis(reply.analysis, environment)]
    ELSE [raised |-> TRUE, via |-> "gemini", summary |-> NoSummary]

\* The OpenAI adapter raising its exceptions again, as the Gemini adapter does.
analyze_with_openai_Raises(description, stacktrace, environment, api_key, reply) ==
    IF reply.kind = "object"
    THEN [raised |-> FALSE, via |-> "openai",
          summary |-> SummaryOfAnalysis(reply.analysis, environment)]
    ELSE [raised |-> TRUE, via |-> "openai", summary |-> NoSummary]

\* Lines 174-212: every exception is caught and answered by the rules.
analyze_with_openai(description, stacktrace, environment, api_key, reply) ==
    IF reply.kind = "object"
    THEN [raised |-> FALSE, via |-> "openai",
          summary |-> SummaryOfAnalysis(reply.analysis, environment)]
    ELSE [raised |-> FALSE, via |-> "rules",
          summary |-> analyze_with_rules(description, stacktrace, environment)]

-----------------------------------------------------------------------------
(* Inputs.                                                                 *)

\* os.getenv(...): None, or the string the variable holds.
KeyValues ==
    {[isNone |-> TRUE, value |-> ""],
     [isNone |-> FALSE, value |-> ""],
     [isNone |-> FALSE, value |-> "secret-key"]}

\* if gemini_api_key: / if openai_api_key:
Configured(key) == ~key.isNone /\ key.value # ""

Ids == {"report-1", "report-2"}

EnvKeys == {"os", "browser", "browserVersion", "device"}

EnvValue(k) ==
    CASE k = "os" -> "Windows"
      [] k = "browser" -> "Chrome"
      [] k = "browserVersion" -> "120"
      [] OTHER -> "phone"

\* Every mapping over EnvKeys whose values are the key's value or "".
EnvMappings ==
    UNION {[D -> {""} \cup {EnvValue(k) : k \in D}] : D \in SUBSET EnvKeys}

EnvItems ==
    {d \in EnvMappings : \A k \in DOMAIN d : d[k] \in {"", EnvValue(k)}}

NoneEnv == [isNone |-> TRUE, items |-> <<>>]

AllEnvs == {NoneEnv} \cup {[isNone |-> FALSE, items |-> d] : d \in EnvItems}

SomeEnvs ==
    {NoneEnv,
     [isNone |-> FALSE, items |-> <<>>],
     [isNone |-> FALSE, items |-> [k \in {"os"} |-> "Windows"]],
     [isNone |-> FALSE, items |-> [k \in {"browser", "browserVersion"} |-> EnvValue(k)]],
     [isNone |-> FALSE, items |-> [k \in {"device"} |-> "phone"]]}

SomeDescriptions ==
    {"",
     "App crashes with 500 internal server error on file upload",
     "Actual: page crashes\nExpected: page loads",
     "It is odd"}

SomeStacktraces == {"", "TypeError: x is undefined"}

Words ==
    {"500 ", "file ", "404 ", "Crash ", "null ", "TypeError ", "CORS ", "odd ",
     "save ", "Actual: ", "Expected: ", "should: ", "observed: ", "\n"}

\* The texts made of at most n words.
RECURSIVE Phrases(_)
Phrases(n) ==
    IF n = 0 THEN {""}
    ELSE Phrases(n - 1) \cup {p \o w : p \in Phrases(n - 1), w \in Words}

RuleDescriptions ==
    {"Network request timeout", "Login with OAuth fails", "Layout is broken",
     "The page is slow", "Memory grows, a leak", "White screen on Save button",
     "Blank screen, cannot read property of null", "Upload fails: Entity Too Large 500",
     "Page not", "CRA",
     "Steps...\n  Actual:  page crashes  \n  Expected:\tpage loads\r",
     "actual: one actual: two\nexpected: three expected: four",
     "Actual: " \o Repeat("x", FillerLen),
     "Expected:   " \o Repeat("y", FillerLen) \o " end",
     "Actual: page crashes \nExpected: "}

\* Every keyword the rules and their sub-branches test, alone.
KeywordDescriptions ==
    {"500", "Internal Server Error", "upload", "entity too large", "file",
     "404", "Not Found", "crash", "white screen", "blank screen", "save",
     "button", "undefined", "null", "cannot read property", "TypeError",
     "network", "fetch", "API", "timeout", "cors", "login", "auth",
     "authentication", "oauth", "UI", "display", "layout", "CSS", "rendering",
     "performance", "slow", "lag", "memory", "leak"}

RuleStacktraces == {"", "found", "SH"}

Replies ==
    {[kind |-> "error", analysis |-> <<>>],
     [kind |-> "unparsable", analysis |-> <<>>],
     [kind |-> "invalid", analysis |-> <<>>],
     [kind |-> "object", analysis |-> <<>>],
     [kind |-> "object",
      analysis |-> [actualBehavior |-> "It stops", expectedBehavior |-> "It runs",
                    bugCategory |-> "logic-error", rootCause |-> "Off by one",
                    suggestedSolution |-> "Fix the loop", environment |-> "Mars OS"]],
     [kind |-> "object",
      analysis |-> [bugCategory |-> "banana", rootCause |-> "",
                    environment |-> "Mars OS"]]}

Requests(ids, descriptions, stacktraces, envs) ==
    {[id |-> i, input |-> [description |-> d, stacktrace_text |-> s, env |-> e]] :
        i \in ids, d \in descriptions, s \in stacktraces, e \in envs}

-----------------------------------------------------------------------------
(* The handler of POST /inference, lines 70-147.                           *)

\* Nothing has been received from the OpenAI API.
NoReply == [kind |-> "none", analysis |-> <<>>]

NoResponse == [status |-> 0, id |-> "", summary |-> NoSummary, model_name |-> ""]

InitHandler ==
    /\ pc = "Start"
    /\ environment_text = ""
    /\ summary = NoSummary
    /\ model_name = ""
    /\ calls = <<>>
    /\ attempt = [gemini |-> "none", openai |-> "none"]
    /\ api_calls = [gemini |-> 0, openai |-> 0]
    /\ api_response = NoReply
    /\ response = NoResponse

Init ==
    /\ request \in Requests(Ids, SomeDescriptions, SomeStacktraces, SomeEnvs)
    /\ gemini_api_key \in KeyValues
    /\ openai_api_key \in KeyValues
    /\ InitHandler

description == request.input.description
stacktrace == request.input.stacktrace_text

\* The branch with OpenAI called whenever Gemini is not configured.
FirstState_OpenAIUnchecked ==
    IF Configured(gemini_api_key) THEN "TryProviderA" ELSE "TryProviderB"

\* The branch with OpenAI preferred to Gemini.
FirstState_OpenAIFirst ==
    IF Configured(openai_api_key) THEN "TryProviderB"
    ELSE IF Configured(gemini_api_key) THEN "TryProviderA"
    ELSE "Fallback"

\* Lines 103, 117, 121: the branch the handler takes on the credentials.
FirstState ==
    IF Configured(gemini_api_key) THEN "TryProviderA"
    ELSE IF Configured(openai_api_key) THEN "TryProviderB"
    ELSE "Fallback"

\* Lines 78-103: the inputs are read, the environment summary is built and
\* the credentials are read.
Dispatch ==
    /\ pc = "Start"
    /\ environment_text' = EnvironmentText(request.input.env)
    /\ pc' = FirstState
    /\ UNCHANGED <<api_response, request, gemini_api_key, openai_api_key, summary, model_name,
                   calls, attempt, api_calls, response>>

\* The Gemini step with one retry: a failed first call is followed by a
\* second call of analyze_with_gemini.
TryProviderA_Retries ==
    /\ pc = "TryProviderA"
    /\ \E reply \in Replies :
        LET r == analyze_with_gemini(description, stacktrace, environment_text,
                                     gemini_api_key.value, reply)
        IN  /\ calls' = Append(calls, "analyze_with_gemini")
            /\ api_calls' = [api_calls EXCEPT !.gemini = @ + 1]
            /\ IF r.raised
               THEN /\ attempt' = [attempt EXCEPT !.gemini = "failed"]
                    /\ pc' = IF api_calls.gemini = 0 THEN "TryProviderA"
                             ELSE IF Configured(openai_api_key)
                             THEN "TryProviderB" ELSE "Fallback"
                    /\ UNCHANGED <<summary, model_name>>
               ELSE /\ attempt' = [attempt EXCEPT !.gemini = "ok"]
                    /\ summary' = r.summary
                    /\ model_name' = "gemini-2.0-flash"
                    /\ pc' = "Respond"
    /\ UNCHANGED <<api_response, request, gemini_api_key, openai_api_key, environment_text,
                   response>>

\* Lines 105-110 and 113: the call of analyze_with_gemini and its except
\* clause, which goes on to OpenAI or to the rules.
TryProviderA ==
    /\ pc = "TryProviderA"
    /\ \E reply \in Replies :
        LET r == analyze_with_gemini(description, stacktrace, environment_text,
                                     gemini_api_key.value, reply)
        IN  /\ calls' = Append(calls, "analyze_with_gemini")
            /\ api_calls' = [api_calls EXCEPT !.gemini = @ + 1]
            /\ IF r.raised
               THEN /\ attempt' = [attempt EXCEPT !.gemini = "failed"]
                    /\ pc' = IF Configured(openai_api_key)
                             THEN "TryProviderB" ELSE "Fallback"
                    /\ UNCHANGED <<summary, model_name>>
               ELSE /\ attempt' = [attempt EXCEPT !.gemini = "ok"]
                    /\ summary' = r.summary
                    /\ model_name' = "gemini-2.0-flash"
                    /\ pc' = "Respond"
    /\ UNCHANGED <<api_response, request, gemini_api_key, openai_api_key, environment_text,
                   response>>

\* Lines 142-147: the handler's own except clause.
InternalError == [status |-> 500, id |-> "", summary |-> NoSummary, model_name |-> ""]

\* Lines 111, 119 and 150-192: analyze_with_openai is entered and its request
\* is sent.  At the await of line 176 the handler is suspended until the
\* answer comes: other requests are handled meanwhile, each with a state of
\* its own.
TryProviderB ==
    /\ pc = "TryProviderB"
    /\ calls' = Append(calls, "analyze_with_openai")
    /\ api_calls' = [api_calls EXCEPT !.openai = @ + 1]
    /\ pc' = "AwaitProviderB"
    /\ UNCHANGED <<api_response, request, gemini_api_key, openai_api_key, environment_text,
                   summary, model_name, attempt, response>>

\* Lines 176 and 193-208: the answer of the API (or the failure of the
\* call) reaches the suspended handler and is judged: line 195 raises on a
\* status other than 200, lines 197-199 on an answer that cannot be read,
\* line 201 builds the result.  Leaving the `async with` of line 175 then
\* closes the connection, where the handler is suspended once more before
\* the except clause or the return takes effect.
ProviderBReplies ==
    /\ pc = "AwaitProviderB"
    /\ api_response' \in Replies
    /\ pc' = "CloseProviderB"
    /\ UNCHANGED <<request, gemini_api_key, openai_api_key, environment_text,
                   summary, model_name, calls, attempt, api_calls, response>>

\* Lines 175 and 201-212, then 112 or 120: resumed after the connection is
\* closed, analyze_with_openai returns the API's analysis, or the result of
\* the rules from its except clause, and the handler assigns summary and
\* model_name.
ProviderBCloses ==
    /\ pc = "CloseProviderB"
    /\ LET r == analyze_with_openai(description, stacktrace, environment_text,
                                    openai_api_key.value, api_response)
       IN  /\ calls' = IF r.via = "rules"
                       THEN Append(calls, "analyze_with_rules")
                       ELSE calls
           /\ attempt' = [attempt EXCEPT
                             !.openai = IF r.via = "openai" THEN "ok" ELSE "failed"]
           /\ IF r.raised
              THEN /\ response' = InternalError
                   /\ pc' = "Error"
                   /\ UNCHANGED <<summary, model_name>>
              ELSE /\ summary' = r.summary
                   /\ model_name' = "gpt-4o-mini"
                   /\ pc' = "Respond"
                   /\ UNCHANGED response
    /\ UNCHANGED <<request, gemini_api_key, openai_api_key, environment_text,
                   api_calls, api_response>>

\* Lines 175-176: the task of the request is cancelled while it is suspended,
\* waiting for the answer or closing the connection after it.
\* CancelledError is no Exception, so neither the except clause of line 210
\* nor that of line 142 catches it: the rules are not run and the handler
\* ends with no response of either kind.
ProviderBCancelled ==
    /\ pc \in {"AwaitProviderB", "CloseProviderB"}
    /\ pc' = "Cancelled"
    /\ UNCHANGED <<request, gemini_api_key, openai_api_key, environment_text,
                   summary, model_name, calls, attempt, api_calls, api_response,
                   response>>

\* Lines 114-116 and 122-125: the rules, when no provider is left.
Fallback ==
    /\ pc = "Fallback"
    /\ calls' = Append(calls, "analyze_with_rules")
    /\ summary' = analyze_with_rules(description, stacktrace, environment_text)
    /\ model_name' = "rule-based-analyzer"
    /\ pc' = "Respond"
    /\ UNCHANGED <<api_response, request, gemini_api_key, openai_api_key, environment_text,
                   attempt, api_calls, response>>

\* Lines 128-140: the InferenceResponse is built and returned.
Respond ==
    /\ pc = "Respond"
    /\ response' = [status |-> 200, id |-> request.id, summary |-> summary,
                    model_name |-> model_name]
    /\ pc' = "Done"
    /\ UNCHANGED <<api_response, request, gemini_api_key, openai_api_key, environment_text,
                   summary, model_name, calls, attempt, api_calls>>

Next ==
    \/ Dispatch \/ TryProviderA
    \/ TryProviderB \/ ProviderBReplies \/ ProviderBCloses \/ ProviderBCancelled
    \/ Fallback \/ Respond

Spec == Init /\ [][Next]_vars

\* The classifier and the environment summary over the wider inputs, through
\* the handler with no credential configured.
InitClassifier ==
    /\ request \in
          Requests({"report-1"}, Phrases(MaxWords) \cup RuleDescriptions \cup KeywordDescriptions,
                   RuleStacktraces, {NoneEnv})
          \cup Requests({"report-1"}, {"Crash"}, {""}, AllEnvs)
    /\ gemini_api_key = [isNone |-> TRUE, value |-> ""]
    /\ openai_api_key = [isNone |-> TRUE, value |-> ""]
    /\ InitHandler

NextClassifier == Dispatch \/ Fallback \/ Respond

SpecClassifier == InitClassifier /\ [][NextClassifier]_vars

-----------------------------------------------------------------------------
(* Properties.                                                             *)

Returned == response.status = 200

Invoked(f) == \E i \in 1..Len(calls) : calls[i] = f

\* C1: in every InferenceResult, model.name names the path that produced the
\* summary: the Gemini id only if the Gemini adapter produced it, the OpenAI
\* id only if the OpenAI API produced it, and "rule-based-analyzer" whenever
\* analyze_with_rules produced it.
C1_ModelNameRecordsPath ==
    Returned =>
        /\ response.model_name = "gemini-2.0-flash" => attempt.gemini = "ok"
        /\ response.model_name = "gpt-4o-mini" => attempt.openai = "ok"
        /\ Invoked("analyze_with_rules") =>
              response.model_name = "rule-based-analyzer"

SummaryFields ==
    {"environment", "actualBehavior", "expectedBehavior", "bugCategory",
     "rootCause", "suggestedSolution"}

\* C2: analyze_with_rules returns a BugSummary whose six fields are all
\* non-empty strings, the override pass included.
C2_RulesFieldsNonEmpty ==
    (Returned /\ Invoked("analyze_with_rules")) =>
        \A f \in SummaryFields : response.summary[f] # ""

Categories ==
    {"crash", "null-reference", "network-error", "authentication",
     "ui-rendering", "performance", "memory-leak", "logic-error",
     "validation-error", "configuration-error", "server-error", "routing-error"}

\* C3: in every InferenceResult, on any path, summary.bugCategory is one of
\* the twelve categories or "unknown".
C3_CategoryInFixedSet ==
    Returned => response.summary.bugCategory \in Categories \cup {"unknown"}

\* The summarizer as the specification words it: the sentinel for an absent
\* mapping, the other sentinel for a mapping with no recognized value, and
\* otherwise the labelled values joined by ", ".
SpecifiedEnvironmentSummary(env) ==
    IF env.isNone THEN "No environment information provided"
    ELSE LET d == env.items
             os == IF HasValue(d, "os") THEN <<"OS: " \o d["os"]>> ELSE <<>>
             version == IF HasValue(d, "browserVersion")
                        THEN " " \o d["browserVersion"] ELSE ""
             browser == IF HasValue(d, "browser")
                        THEN <<"Browser: " \o d["browser"] \o version>> ELSE <<>>
         IN  IF os \o browser = <<>> THEN "Environment not specified"
             ELSE Join(os \o browser)

\* C4: the environment summary the handler computes equals the specified
\* summarizer for every environment mapping, absent, empty or filled.
C4_EnvironmentSummaryAsSpecified ==
    pc # "Start" =>
        environment_text = SpecifiedEnvironmentSummary(request.input.env)

\* The rule table as the specification lists it: keyword sets and
\* categories, in order.
RuleKeywords ==
    << {"500", "internal server error"},
       {"404", "not found"},
       {"crash", "white screen", "blank screen"},
       {"cannot read property", "undefined", "typeerror"},
       {"network", "fetch", "api", "timeout", "cors"},
       {"login", "auth", "authentication", "oauth"},
       {"ui", "display", "layout", "css", "rendering"},
       {"performance", "slow", "lag"},
       {"memory", "leak"} >>

RuleCategories ==
    << "server-error", "routing-error", "crash", "null-reference",
       "network-error", "authentication", "ui-rendering", "performance",
       "memory-leak" >>

\* The rules whose keyword set has a substring match in text.
MatchingRules(text) ==
    {i \in 1..Len(RuleKeywords) : \E k \in RuleKeywords[i] : Contains(text, k)}

\* The lowest-numbered matching rule; 0 when no rule matches.
LowestRule(text) ==
    IF MatchingRules(text) = {} THEN 0
    ELSE CHOOSE i \in MatchingRules(text) : \A j \in MatchingRules(text) : i <= j

\* What rule i alone sets for text; the fillers for i = 0.
RuleOutcome(i, text) ==
    CASE i = 1 -> ServerErrorRule(text)
      [] i = 2 -> RoutingErrorRule(text)
      [] i = 3 -> CrashRule(text)
      [] i = 4 -> NullReferenceRule(text)
      [] i = 5 -> NetworkErrorRule(text)
      [] i = 6 -> AuthenticationRule(text)
      [] i = 7 -> UiRenderingRule(text)
      [] i = 8 -> PerformanceRule(text)
      [] i = 9 -> MemoryLeakRule(text)
      [] OTHER -> RuleDefaults

RequestText == RuleText(description, stacktrace)

RulesReturned == Returned /\ Invoked("analyze_with_rules")

\* C5: analyze_with_rules is first-match-wins over the ordered rule table:
\* bugCategory, rootCause and suggestedSolution are those of the
\* lowest-numbered rule with a keyword in the lowercased text, and "unknown"
\* with the generic fillers when no rule matches.
C5_FirstMatchWins ==
    RulesReturned =>
        LET i == LowestRule(RequestText)
            s == response.summary
        IN  /\ s.bugCategory = (IF i = 0 THEN "unknown" ELSE RuleCategories[i])
            /\ s.rootCause = RuleOutcome(i, RequestText).root_cause
            /\ s.suggestedSolution = RuleOutcome(i, RequestText).suggested_solution
            /\ i = 0 =>
                  /\ s.rootCause =
                        "Unable to determine root cause from available information"
                  /\ s.suggestedSolution =
                        "Please review the error logs and stack trace for more details"

\* A text matching rules 3 and 4 (and no earlier rule) was classified crash.
C5_Witness ==
    /\ RulesReturned
    /\ {3, 4} \subseteq MatchingRules(RequestText)
    /\ LowestRule(RequestText) = 3
    /\ response.summary.bugCategory = "crash"

\* The first line of text that contains key.
FirstLineContaining(text, key) ==
    LET lines == Split(text, "\n")
    IN  lines[CHOOSE i \in 1..Len(lines) :
                 /\ Contains(lines[i], key)
                 /\ \A j \in 1..(i - 1) : ~Contains(lines[j], key)]

\* The substring after the first key on the first line containing it,
\* trimmed, then cut to 200 characters.
AfterFirst(text, key) ==
    LET line == FirstLineContaining(text, key)
    IN  Truncate(Strip(From(line, Find(line, key) + Len(key))), BehaviorMaxLen)

\* C6: when a line of the lowercased text contains "actual:", actualBehavior
\* is the substring after the first "actual:" on the first such line, trimmed
\* and cut to 200 characters, whatever rule matched; otherwise it is the
\* matched rule's text.
C6_ActualIsRestOfLine ==
    RulesReturned =>
        response.summary.actualBehavior =
            IF Contains(RequestText, "actual:")
            THEN AfterFirst(RequestText, "actual:")
            ELSE RuleOutcome(LowestRule(RequestText), RequestText).actual_behavior

\* C7: with neither credential configured, every returned result has
\* model.name "rule-based-analyzer", no provider adapter was called, and the
\* summary is the Classifier's for the request's description, stack trace and
\* environment summary.
C7_NoCredentialMeansRules ==
    (~Configured(gemini_api_key) /\ ~Configured(openai_api_key)) =>
        /\ ~Invoked("analyze_with_gemini")
        /\ ~Invoked("analyze_with_openai")
        /\ api_calls = [gemini |-> 0, openai |-> 0]
        /\ Returned =>
              /\ response.model_name = "rule-based-analyzer"
              /\ calls = <<"analyze_with_rules">>
              /\ response.summary =
                    analyze_with_rules(description, stacktrace,
                                       EnvironmentText(request.input.env))

\* A request was answered although a credential variable is set to "".
C7_Witness ==
    /\ Returned
    /\ ~gemini_api_key.isNone /\ ~Configured(gemini_api_key)
    /\ ~Configured(openai_api_key)
    /\ response.model_name = "rule-based-analyzer"

\* C8: a provider failure is never surfaced: whatever credentials are
\* configured and whichever provider calls fail, the request is never
\* answered with the internal error (the handler never reaches its own
\* except clause), and when it is done it has returned a result for the
\* request.  The handler stops short of Done only when its task is cancelled
\* while the OpenAI call is pending or its connection is being closed, which
\* is no failure of a provider and gives the caller no response at all.
C8_ProviderFailureNeverSurfaced ==
    /\ response.status # 500
    /\ pc \in {"Start", "TryProviderA", "TryProviderB", "AwaitProviderB",
               "CloseProviderB", "Fallback", "Respond", "Done", "Cancelled"}
    /\ pc = "Cancelled" =>
          (response = NoResponse /\ attempt.openai = "none" /\ api_calls.openai = 1)
    /\ pc = "Done" =>
          /\ Returned
          /\ response.id = request.id
          /\ response.summary = summary /\ summary # NoSummary
          /\ response.model_name \in
                {"gemini-2.0-flash", "gpt-4o-mini", "rule-based-analyzer"}

\* Both providers were configured, both failed, and a result was returned.
C8_Witness ==
    /\ attempt = [gemini |-> "failed", openai |-> "failed"]
    /\ pc = "Done"
    /\ Returned

\* C9: in every InferenceResult, summary.environment is the environment
\* summary computed for the request, on every path and whatever environment
\* the provider's JSON held, and id is the caller's id.
C9_EnvironmentAndIdEchoed ==
    Returned =>
        /\ response.summary.environment = EnvironmentText(request.input.env)
        /\ response.summary.environment = environment_text
        /\ response.id = request.id

\* A provider whose JSON held its own environment value produced the result.
C9_Witness ==
    /\ Returned
    /\ attempt.openai = "ok"
    /\ response.summary.bugCategory = "banana"
    /\ response.summary.environment = "OS: Windows"

PcRank(p) ==
    CASE p = "Start" -> 0
      [] p = "TryProviderA" -> 1
      [] p = "TryProviderB" -> 2
      [] p = "AwaitProviderB" -> 3
      [] p = "CloseProviderB" -> 4
      [] p = "Fallback" -> 5
      [] p = "Respond" -> 6
      [] p = "Done" -> 7
      [] p = "Cancelled" -> 7
      [] OTHER -> 8

CallRank(f) ==
    CASE f = "analyze_with_gemini" -> 1
      [] f = "analyze_with_openai" -> 2
      [] OTHER -> 3

C10_Order ==
    \* the functions are invoked in the order Gemini, OpenAI, rules
    /\ \A i, j \in 1..Len(calls) : i < j => CallRank(calls[i]) < CallRank(calls[j])
    \* Gemini is attempted, and first, whenever its credential is configured
    /\ (Configured(gemini_api_key) /\ pc \notin {"Start", "TryProviderA"}) =>
          (Len(calls) > 0 /\ calls[1] = "analyze_with_gemini")
    /\ Invoked("analyze_with_gemini") => Configured(gemini_api_key)
    \* OpenAI only if configured and Gemini is unconfigured or has failed
    /\ (Invoked("analyze_with_openai") \/ pc \in {"TryProviderB", "AwaitProviderB", "CloseProviderB"}) =>
          /\ Configured(openai_api_key)
          /\ ~Configured(gemini_api_key) \/ attempt.gemini = "failed"
    \* the rules only when every configured provider has failed
    /\ (Invoked("analyze_with_rules") \/ pc = "Fallback") =>
          /\ Configured(gemini_api_key) => attempt.gemini = "failed"
          /\ Configured(openai_api_key) => attempt.openai = "failed"
    \* after a success nothing else is invoked
    /\ attempt.gemini = "ok" => calls = <<"analyze_with_gemini">>
    /\ attempt.openai = "ok" =>
          (calls # <<>> /\ calls[Len(calls)] = "analyze_with_openai")

C10_Step ==
    /\ PcRank(pc') > PcRank(pc)
    /\ (attempt.gemini = "ok" \/ attempt.openai = "ok") =>
          (calls' = calls /\ pc' \in {"Respond", "Done"})

\* C10: within one request the handler goes through TryProviderA,
\* TryProviderB, Fallback, Done in that order only: Gemini first whenever
\* configured, OpenAI only if configured and Gemini is unconfigured or has
\* failed, the Classifier only when every configured provider has failed or
\* none is configured, and nothing more once a provider has succeeded.
C10_FixedFallbackOrder == [](C10_Order) /\ [][C10_Step]_vars

\* Gemini failed, then OpenAI succeeded, and the result was returned.
C10_Witness ==
    /\ pc = "Done"
    /\ calls = <<"analyze_with_gemini", "analyze_with_openai">>
    /\ attempt = [gemini |-> "failed", openai |-> "ok"]

Providers == {"gemini", "openai"}

C11_AtMostOnce ==
    /\ \A p \in Providers : api_calls[p] <= 1
    /\ \A p \in Providers : attempt[p] # "none" => api_calls[p] = 1
    \* a call with no outcome is the pending OpenAI call, or the cancelled one
    /\ api_calls.gemini = 1 => attempt.gemini # "none"
    /\ (api_calls.openai = 1 /\ attempt.openai = "none") =>
          pc \in {"AwaitProviderB", "CloseProviderB", "Cancelled"}
    /\ \A i, j \in 1..Len(calls) : calls[i] = calls[j] => i = j

C11_Step ==
    \* a provider's API is called only when it has not been called before
    /\ \A p \in Providers :
          api_calls'[p] # api_calls[p] =>
              (api_calls[p] = 0 /\ attempt[p] = "none" /\ api_calls'[p] = 1)
    \* a failed Gemini call is followed at once by OpenAI or the rules
    /\ (attempt.gemini # "failed" /\ attempt'.gemini = "failed") =>
          pc' = (IF Configured(openai_api_key) THEN "TryProviderB" ELSE "Fallback")
    \* a failed OpenAI call is followed at once by the rules
    /\ (attempt.openai # "failed" /\ attempt'.openai = "failed") =>
          /\ pc = "CloseProviderB"
          /\ calls' = Append(calls, "analyze_with_rules")
          /\ pc' = "Respond"
    \* once the OpenAI API has answered with a failure, the next step of the
    \* request is the rules, unless its task is cancelled first
    /\ (pc = "CloseProviderB" /\ api_response.kind # "object") =>
          \/ pc' = "Cancelled" /\ calls' = calls
          \/ /\ attempt'.openai = "failed"
             /\ calls' = Append(calls, "analyze_with_rules")
             /\ pc' = "Respond"
    \* the handler never goes back to a provider
    /\ pc' = "TryProviderA" => pc = "Start"
    /\ pc' = "TryProviderB" => pc \in {"Start", "TryProviderA"}
    /\ pc' = "AwaitProviderB" => pc = "TryProviderB"
    /\ pc' = "CloseProviderB" => pc = "AwaitProviderB"

\* C11: no retries: in one request each provider's API is called at most
\* once, and a failed or timed-out call is followed immediately by the next
\* fallback state (the next provider or the Classifier), never by a second
\* call to the same provider.
C11_NoRetries == [](C11_AtMostOnce) /\ [][C11_Step]_vars

\* Each provider was called exactly once, both calls failed, and the request
\* was answered by the rules.
C11_Witness ==
    /\ pc = "Done"
    /\ api_calls = [gemini |-> 1, openai |-> 1]
    /\ attempt = [gemini |-> "failed", openai |-> "failed"]
    /\ calls = <<"analyze_with_gemini", "analyze_with_openai", "analyze_with_rules">>

\* C12: in analyze_with_rules the expectedBehavior override fires exactly when
\* some line of the lowercased text contains "expected:", its value being the
\* text after the first "expected:" on the first such line, trimmed and cut
\* to 200 characters; text with "should:" but no "expected:" keeps the
\* matched rule's expected behaviour; and the override pass leaves
\* bugCategory, rootCause, suggestedSolution and environment as the rule
\* step set them.
C12_ExpectedOverrideAndFrame ==
    RulesReturned =>
        LET r == RuleOutcome(LowestRule(RequestText), RequestText)
            s == response.summary
        IN  /\ s.expectedBehavior =
                  IF Contains(RequestText, "expected:")
                  THEN AfterFirst(RequestText, "expected:")
                  ELSE r.expected_behavior
            /\ s.bugCategory = r.bug_category
            /\ s.rootCause = r.root_cause
            /\ s.suggestedSolution = r.suggested_solution
            /\ s.environment = environment_text

====
